---------------------------- MODULE Spec2Model ----------------------------
(***************************************************************************)
(* Model of src/src/allergen_detector.py: the ingredient extractor, the    *)
(* allergen reference table and its LIKE search, the risk assessor and the *)
(* detection orchestrator.                                                 *)
(*                                                                         *)
(* A Python str is a sequence of characters; a character is a one-letter   *)
(* string, and a non-ASCII character is written by its code point          *)
(* ("U+FF0C" is the full-width comma).  A float is an exact rational       *)
(* <<numerator, denominator>>.                                             *)
(***************************************************************************)
EXTENDS Integers, Sequences, FiniteSets, TLC

VARIABLES
    text,               \* the argument of scan_text / extract_ingredients
    user_allergens,     \* RiskAssessor.user_allergens: category -> severity
    ingredients,        \* the list extract_ingredients returned
    idx,                \* tokens already processed by the loop of line 257
    found_ingredients,  \* _analyze_ingredients' found_ingredients
    detected_allergens, \* _analyze_ingredients' detected_allergens
    risk_level,         \* DetectionResult.risk_level / assess_risk's result
    warnings,           \* DetectionResult.warnings / generate_warnings' result
    confidence,         \* DetectionResult.confidence
    safe,               \* DetectionResult.safe
    pc                  \* position of the call in progress

vars == <<text, user_allergens, ingredients, idx, found_ingredients,
          detected_allergens, risk_level, warnings, confidence, safe, pc>>

-----------------------------------------------------------------------------
(* Bounds of the model *)

MaxTextLen == 4

MaxSegments == 3

MaxBenign == 6

MaxDetected == 3

MaxUserSeverity == 5

-----------------------------------------------------------------------------
(* Python str and re primitives *)

None == << "<None>" >>

Whitespace == {" ", "\t", "\n", "\r", "\f"}

Digits == {"0", "1", "2", "3", "4", "5", "6", "7", "8", "9"}

UpperCase == <<"A","B","C","D","E","F","G","H","I","J","K","L","M",
               "N","O","P","Q","R","S","T","U","V","W","X","Y","Z">>

LowerCase == <<"a","b","c","d","e","f","g","h","i","j","k","l","m",
               "n","o","p","q","r","s","t","u","v","w","x","y","z">>

UpperCaseSet == {UpperCase[i] : i \in 1..26}

lower_char(c) ==
    IF c \in UpperCaseSet
    THEN LowerCase[CHOOSE i \in 1..26 : UpperCase[i] = c]
    ELSE c

lower(s) == [i \in 1..Len(s) |-> lower_char(s[i])]

RECURSIVE lstrip(_)
lstrip(s) ==
    IF s # <<>> /\ Head(s) \in Whitespace THEN lstrip(Tail(s)) ELSE s

RECURSIVE rstrip(_)
rstrip(s) ==
    IF s # <<>> /\ s[Len(s)] \in Whitespace
    THEN rstrip(SubSeq(s, 1, Len(s) - 1))
    ELSE s

strip(s) == rstrip(lstrip(s))

startswith(s, prefix) ==
    Len(s) >= Len(prefix) /\ SubSeq(s, 1, Len(prefix)) = prefix

-----------------------------------------------------------------------------
(* IngredientProcessor *)

Separators == {",", "U+FF0C", ";", "U+FF1B", "U+3001", "\n"}

Colons == {":", "U+FF1A"}

stop_words == {
    <<"i","n","g","r","e","d","i","e","n","t","s">>,
    <<"U+6210","U+5206">>,
    <<"U+539F","U+6599">>,
    <<"U+6750","U+6599">>,
    <<"c","o","n","t","a","i","n","s">>,
    <<"U+542B","U+6709">>,
    <<"w","a","t","e","r">>,
    <<"U+6C34">>,
    <<"s","a","l","t">>,
    <<"U+76D0">>,
    <<"s","u","g","a","r">>,
    <<"U+7CD6">>,
    <<"o","i","l">>,
    <<"U+6CB9">>,
    <<"n","a","t","u","r","a","l">>,
    <<"U+81EA","U+7136">>,
    <<"a","r","t","i","f","i","c","i","a","l">>,
    <<"U+4EBA","U+5DE5">>,
    <<"f","l","a","v","o","r">>,
    <<"U+98CE","U+5473">>,
    <<"p","r","e","s","e","r","v","a","t","i","v","e">>,
    <<"U+9632","U+8150","U+5242">>,
    <<"c","o","l","o","r">>,
    <<"U+8272","U+7D20">>,
    <<"v","i","t","a","m","i","n">>,
    <<"U+7EF4","U+751F","U+7D20">> }

\* re.sub(r"\s+", " ", text)
RECURSIVE collapse_whitespace(_)
collapse_whitespace(s) ==
    IF s = <<>> THEN <<>>
    ELSE IF Head(s) \in Whitespace
         THEN <<" ">> \o collapse_whitespace(lstrip(s))
         ELSE <<Head(s)>> \o collapse_whitespace(Tail(s))

\* Length of the match of  word s? [:U+FF1A] \s*  (s? only with opt_s) at the
\* start of s under re.IGNORECASE; 0 when the pattern does not match there.
match_boilerplate(s, word, opt_s) ==
    LET n == Len(word)
        hasWord == Len(s) >= n /\ lower(SubSeq(s, 1, n)) = word
        k == IF opt_s /\ Len(s) > n /\ lower_char(s[n + 1]) = "s"
             THEN n + 1 ELSE n
        rest == SubSeq(s, k + 2, Len(s))
    IN  IF hasWord /\ Len(s) > k /\ s[k + 1] \in Colons
        THEN (k + 1) + (Len(rest) - Len(lstrip(rest)))
        ELSE 0

\* re.sub(pattern, "", text, flags=re.IGNORECASE) for one of patterns_to_remove
RECURSIVE remove_boilerplate(_, _, _)
remove_boilerplate(s, word, opt_s) ==
    IF s = <<>> THEN <<>>
    ELSE LET m == match_boilerplate(s, word, opt_s)
         IN  IF m > 0
             THEN remove_boilerplate(SubSeq(s, m + 1, Len(s)), word, opt_s)
             ELSE <<Head(s)>> \o remove_boilerplate(Tail(s), word, opt_s)

clean_text(t) ==
    LET t0 == collapse_whitespace(t)
        t1 == remove_boilerplate(t0, <<"i","n","g","r","e","d","i","e","n","t">>, TRUE)
        t2 == remove_boilerplate(t1, <<"c","o","n","t","a","i","n">>, TRUE)
        t3 == remove_boilerplate(t2, <<"m","a","y"," ","c","o","n","t","a","i","n">>, FALSE)
    IN  strip(t3)

\* re.split(r"[,U+FF0C;U+FF1BU+3001\n]\s*", text); cur is the piece being read
RECURSIVE re_split_from(_, _)
re_split_from(s, cur) ==
    IF s = <<>> THEN <<cur>>
    ELSE IF Head(s) \in Separators
         THEN <<cur>> \o re_split_from(lstrip(Tail(s)), <<>>)
         ELSE re_split_from(Tail(s), Append(cur, Head(s)))

re_split(s) == re_split_from(s, <<>>)

RECURSIVE skip_digits(_)
skip_digits(s) ==
    IF s # <<>> /\ Head(s) \in Digits THEN skip_digits(Tail(s)) ELSE s

\* re.sub(r"\d+%?", "", ingredient)
RECURSIVE remove_numbers(_)
remove_numbers(s) ==
    IF s = <<>> THEN <<>>
    ELSE IF Head(s) \in Digits
         THEN LET r == skip_digits(s)
              IN  remove_numbers(IF r # <<>> /\ Head(r) = "%" THEN Tail(r) ELSE r)
         ELSE <<Head(s)>> \o remove_numbers(Tail(s))

\* Index of the first c in s, 0 when there is none
index_of(s, c) ==
    IF \E i \in 1..Len(s) : s[i] = c
    THEN CHOOSE i \in 1..Len(s) : s[i] = c /\ \A j \in 1..(i - 1) : s[j] # c
    ELSE 0

\* re.sub(r"\([^)]*\)", "", ingredient)
RECURSIVE remove_parentheticals(_)
remove_parentheticals(s) ==
    IF s = <<>> THEN <<>>
    ELSE LET close == index_of(Tail(s), ")")
         IN  IF Head(s) = "(" /\ close > 0
             THEN remove_parentheticals(SubSeq(Tail(s), close + 1, Len(Tail(s))))
             ELSE <<Head(s)>> \o remove_parentheticals(Tail(s))

prefixes_to_remove == <<
    <<"c","o","n","t","a","i","n","s">>,
    <<"c","o","n","t","a","i","n","s","*">>,
    <<"m","a","y"," ","c","o","n","t","a","i","n">>,
    <<"+">> >>

\* for prefix in prefixes_to_remove: if startswith: cut it and strip
RECURSIVE remove_prefixes(_, _)
remove_prefixes(s, i) ==
    IF i > Len(prefixes_to_remove) THEN s
    ELSE LET prefix == prefixes_to_remove[i]
         IN  remove_prefixes(
                 IF startswith(s, prefix)
                 THEN strip(SubSeq(s, Len(prefix) + 1, Len(s)))
                 ELSE s,
                 i + 1)

\* clean_ingredient with the stop-word test made on the raw piece, before the cleaning
clean_ingredient_stop_first(ingredient) ==
    LET a == strip(lower(ingredient))
    IN  IF a \in stop_words THEN <<>>
        ELSE remove_prefixes(remove_parentheticals(remove_numbers(a)), 1)

clean_ingredient(ingredient) ==
    LET a == strip(lower(ingredient))
        b == remove_numbers(a)
        c == remove_parentheticals(b)
        d == remove_prefixes(c, 1)
    IN  IF d \in stop_words THEN <<>> ELSE d

\* the loop of lines 152-156 over the pieces from position i on
RECURSIVE extract_loop(_, _, _)
extract_loop(pieces, i, cleaned_ingredients) ==
    IF i > Len(pieces) THEN cleaned_ingredients
    ELSE LET cleaned == clean_ingredient(pieces[i])
         IN  extract_loop(pieces, i + 1,
                 IF cleaned # <<>> /\ Len(cleaned) > 1
                 THEN Append(cleaned_ingredients, cleaned)
                 ELSE cleaned_ingredients)

extract_ingredients(t) ==
    IF t = None \/ t = <<>> THEN <<>>
    ELSE extract_loop(re_split(clean_text(t)), 1, <<>>)

-----------------------------------------------------------------------------
(* AllergenDatabase *)

\* base_allergens (name, type, severity, aliases), in insertion (rowid) order
base_allergens == <<
    [name |-> <<"p","e","a","n","u","t","s">>, type |-> "peanut", severity |-> 5,
     aliases |-> <<"p","e","a","n","u","t",",","g","r","o","u","n","d","n","u","t",",","a","r","a","c","h","i","s"," ","h","y","p","o","g","a","e","a",",","U+82B1","U+751F",",","U+843D","U+82B1","U+751F">>],
    [name |-> <<"m","i","l","k">>, type |-> "dairy", severity |-> 3,
     aliases |-> <<"m","i","l","k",",","d","a","i","r","y",",","l","a","c","t","o","s","e",",","c","a","s","e","i","n",",","U+5976",",","U+725B","U+5976",",","U+4E73","U+5236","U+54C1">>],
    [name |-> <<"g","l","u","t","e","n">>, type |-> "gluten", severity |-> 3,
     aliases |-> <<"g","l","u","t","e","n",",","w","h","e","a","t",",","f","l","o","u","r",",","U+9EB8","U+8D28",",","U+5C0F","U+9EA6",",","U+9762","U+7C89">>],
    [name |-> <<"s","h","r","i","m","p">>, type |-> "shellfish", severity |-> 5,
     aliases |-> <<"s","h","r","i","m","p",",","p","r","a","w","n",",","c","r","u","s","t","a","c","e","a","n",",","U+867E",",","U+6D77","U+9C9C">>],
    [name |-> <<"e","g","g","s">>, type |-> "egg", severity |-> 3,
     aliases |-> <<"e","g","g",",","o","v","a","l","b","u","m","i","n",",","o","v","o","m","u","c","o","i","d",",","U+86CB",",","U+9E21","U+86CB">>] >>

\* SQLite's  s LIKE pattern : % is any run, _ any one character, ASCII letters
\* compare case-insensitively
RECURSIVE like_from(_, _, _, _)
like_from(pattern, i, s, j) ==
    IF i > Len(pattern) THEN j > Len(s)
    ELSE IF pattern[i] = "%"
         THEN \E k \in j..(Len(s) + 1) : like_from(pattern, i + 1, s, k)
         ELSE /\ j <= Len(s)
              /\ \/ pattern[i] = "_"
                 \/ lower_char(pattern[i]) = lower_char(s[j])
              /\ like_from(pattern, i + 1, s, j + 1)

like(pattern, s) == like_from(pattern, 1, s, 1)

\* WHERE LOWER(name) LIKE ? OR LOWER(aliases) LIKE ?, both "%ingredient%"
row_matches(row, ingredient) ==
    LET pattern == <<"%">> \o ingredient \o <<"%">>
    IN  like(pattern, row.lower_name) \/ like(pattern, row.lower_aliases)

\* the rows of the table with the LOWER(name) and LOWER(aliases) of the query
allergens_table ==
    [i \in 1..Len(base_allergens) |->
        [name |-> base_allergens[i].name,
         type |-> base_allergens[i].type,
         severity |-> base_allergens[i].severity,
         lower_name |-> lower(base_allergens[i].name),
         lower_aliases |-> lower(base_allergens[i].aliases)]]

RECURSIVE select_rows(_, _)
select_rows(i, ingredient) ==
    IF i > Len(allergens_table) THEN <<>>
    ELSE (IF row_matches(allergens_table[i], ingredient)
          THEN << [name |-> allergens_table[i].name,
                   type |-> allergens_table[i].type,
                   severity |-> allergens_table[i].severity] >>
          ELSE <<>>) \o select_rows(i + 1, ingredient)

search_allergens(ingredient) == select_rows(1, strip(lower(ingredient)))

-----------------------------------------------------------------------------
(* RiskAssessor *)

RiskLevel == {"low", "moderate", "high", "severe"}

Min(a, b) == IF a <= b THEN a ELSE b

\* risk_after with the levels of the two upper thresholds exchanged
risk_after_swapped(user_severity, allergen_severity, max_risk) ==
    LET combined_severity == Min(user_severity + allergen_severity, 10)
    IN  IF combined_severity >= 8 THEN "high"
        ELSE IF combined_severity >= 6 THEN "severe"
        ELSE IF combined_severity >= 4 THEN "moderate"
        ELSE max_risk

\* lines 210-217: the level the allergen leaves in max_risk
risk_after(user_severity, allergen_severity, max_risk) ==
    LET combined_severity == Min(user_severity + allergen_severity, 10)
    IN  IF combined_severity >= 8 THEN "severe"
        ELSE IF combined_severity >= 6 THEN "high"
        ELSE IF combined_severity >= 4 THEN "moderate"
        ELSE max_risk

\* the loop of lines 205-217 from position i on
RECURSIVE assess_loop(_, _, _, _)
assess_loop(profile, detected, i, max_risk) ==
    IF i > Len(detected) THEN max_risk
    ELSE LET allergen == detected[i]
         IN  assess_loop(profile, detected, i + 1,
                 IF allergen.type \in DOMAIN profile
                 THEN risk_after(profile[allergen.type], allergen.severity, max_risk)
                 ELSE max_risk)

assess_risk(profile, detected) ==
    IF detected = <<>> THEN "low" ELSE assess_loop(profile, detected, 1, "low")

\* warning_tier with "or" for "and" in the first test
warning_tier_either(user_severity, allergen_severity) ==
    IF user_severity >= 4 \/ allergen_severity >= 4 THEN "severe_warning"
    ELSE IF user_severity >= 3 \/ allergen_severity >= 3 THEN "warning"
    ELSE "reminder"

\* lines 229-234: the tier of the message appended
warning_tier(user_severity, allergen_severity) ==
    IF user_severity >= 4 /\ allergen_severity >= 4 THEN "severe_warning"
    ELSE IF user_severity >= 3 \/ allergen_severity >= 3 THEN "warning"
    ELSE "reminder"

\* the loop of lines 225-234 from position i on; a message is its tier and
\* the allergen name it interpolates
RECURSIVE warnings_loop(_, _, _, _)
warnings_loop(profile, detected, i, acc) ==
    IF i > Len(detected) THEN acc
    ELSE LET allergen == detected[i]
         IN  warnings_loop(profile, detected, i + 1,
                 IF allergen.type \in DOMAIN profile
                 THEN Append(acc, [tier |-> warning_tier(profile[allergen.type],
                                                         allergen.severity),
                                   name |-> allergen.name])
                 ELSE acc)

generate_warnings(profile, detected) == warnings_loop(profile, detected, 1, <<>>)

-----------------------------------------------------------------------------
(* AllergenDetector *)

\* add_matching without the test of line 263
RECURSIVE add_matching_no_dedup(_, _, _, _)
add_matching_no_dedup(matching_allergens, j, detected, ingredient) ==
    IF j > Len(matching_allergens) THEN detected
    ELSE LET allergen == matching_allergens[j]
         IN  add_matching_no_dedup(matching_allergens, j + 1,
                 Append(detected, [name |-> allergen.name,
                                   type |-> allergen.type,
                                   severity |-> allergen.severity,
                                   matched_ingredient |-> ingredient]),
                 ingredient)

\* the inner loop of lines 262-269 from position j on
RECURSIVE add_matching(_, _, _, _)
add_matching(matching_allergens, j, detected, ingredient) ==
    IF j > Len(matching_allergens) THEN detected
    ELSE LET allergen == matching_allergens[j]
         IN  add_matching(matching_allergens, j + 1,
                 IF ~ \E k \in 1..Len(detected) : detected[k].type = allergen.type
                 THEN Append(detected, [name |-> allergen.name,
                                        type |-> allergen.type,
                                        severity |-> allergen.severity,
                                        matched_ingredient |-> ingredient])
                 ELSE detected,
                 ingredient)

\* min(a, b) of two rationals, as Python's min: a unless b < a
rat_min(a, b) == IF b[1] * a[2] < a[1] * b[2] THEN b ELSE a

\* calculate_confidence without the early return of lines 288-289
calculate_confidence_no_guard(detected, ings) ==
    LET total_ingredients == Len(ings)
        matched_ingredients == Len(detected)
        c == IF matched_ingredients > 0
             THEN <<6 * total_ingredients + 4 * matched_ingredients,
                    10 * total_ingredients>>
             ELSE IF total_ingredients > 5 THEN <<8, 10>> ELSE <<5, 10>>
    IN  rat_min(c, <<1, 1>>)

\* calculate_confidence with >= for > in the test of line 297
calculate_confidence_ge(detected, ings) ==
    IF ings = <<>> THEN <<0, 1>>
    ELSE LET total_ingredients == Len(ings)
             matched_ingredients == Len(detected)
             c == IF matched_ingredients > 0
                  THEN <<6 * total_ingredients + 4 * matched_ingredients,
                         10 * total_ingredients>>
                  ELSE IF total_ingredients >= 5 THEN <<8, 10>> ELSE <<5, 10>>
         IN  rat_min(c, <<1, 1>>)

\* calculate_confidence without the cap of line 302
calculate_confidence_no_cap(detected, ings) ==
    IF ings = <<>> THEN <<0, 1>>
    ELSE LET total_ingredients == Len(ings)
             matched_ingredients == Len(detected)
         IN  IF matched_ingredients > 0
             THEN <<6 * total_ingredients + 4 * matched_ingredients,
                    10 * total_ingredients>>
             ELSE IF total_ingredients > 5 THEN <<8, 10>> ELSE <<5, 10>>

calculate_confidence(detected, ings) ==
    IF ings = <<>> THEN <<0, 1>>
    ELSE LET total_ingredients == Len(ings)
             matched_ingredients == Len(detected)
             c == IF matched_ingredients > 0
                  THEN <<6 * total_ingredients + 4 * matched_ingredients,
                         10 * total_ingredients>>
                  ELSE IF total_ingredients > 5 THEN <<8, 10>> ELSE <<5, 10>>
         IN  rat_min(c, <<1, 1>>)

\* is_safe without the second conjunct of line 275
is_safe_risk_only(risk, detected) == risk = "low"

is_safe(risk, detected) == risk = "low" /\ Len(detected) = 0

-----------------------------------------------------------------------------
(* Inputs of the extractor *)

ExtractAlphabet == {"o", "i", "l", ",", " ", "5", "%", "+", "(", ")"}

ExtractSamples == {
    None,
    <<"O","i","l",";"," ","r","y","e","(","a",")",",","r","y","e",",","5">>,
    <<"c","o","n","t","a","i","n","s",":"," ","+","s","a","l","t","U+FF0C","(","x",",","y",")","U+3001","U+6210","U+5206">>,
    <<"m","a","y"," ","c","o","n","t","a","i","n"," ","o","i","l","\n","s","a","l","t"," ","1","2","%">> }

ExtractTexts ==
    ExtractSamples \cup UNION {[1..n -> ExtractAlphabet] : n \in 0..MaxTextLen}

-----------------------------------------------------------------------------
(* Inputs of the scan *)

\* label segments: two dairy aliases, a fragment of "peanuts" and of
\* "crustacean", a word of no record, a stop word, a phrase that contains a
\* record's name, a record's name
Vocabulary == {
    <<"m","i","l","k">>,
    <<"l","a","c","t","o","s","e">>,
    <<"a","n">>,
    <<"r","i","c","e">>,
    <<"s","a","l","t">>,
    <<"s","h","r","i","m","p"," ","p","o","w","d","e","r">>,
    <<"p","e","a","n","u","t","s">> }

RECURSIVE join(_)
join(segments) ==
    IF segments = <<>> THEN <<>>
    ELSE IF Len(segments) = 1 THEN Head(segments)
    ELSE Head(segments) \o <<",", " ">> \o join(Tail(segments))

LabelTexts ==
    {join(w) : w \in UNION {[1..n -> Vocabulary] : n \in 0..MaxSegments}}

\* n benign segments
BenignText(n) == join([i \in 1..n |-> <<"r","i","c","e">>])

ExampleText ==
    <<"I","n","g","r","e","d","i","e","n","t","s",":"," ","W","h","e","a","t"," ","f","l","o","u","r",","," ","s","u","g","a","r",","," ","p","e","a","n","u","t","s",","," ","m","i","l","k"," ","p","o","w","d","e","r",","," ","s","a","l","t",","," ","s","h","r","i","m","p"," ","p","o","w","d","e","r">>

ExampleProfile == [peanut |-> 5, shellfish |-> 3, dairy |-> 2]

ScanTexts ==
    LabelTexts \cup {BenignText(n) : n \in 0..MaxBenign}
               \cup {None, ExampleText, <<"_","_">>}

NoProfile == [c \in {} |-> 0]

ScanProfiles == {NoProfile, ExampleProfile, [dairy |-> 1]}

-----------------------------------------------------------------------------
(* Inputs of the assessor *)

AssessorTypes == {"peanut", "dairy"}

AssessorProfiles ==
    UNION {[S -> 1..MaxUserSeverity] : S \in SUBSET AssessorTypes}

AssessorAllergens ==
    {[name |-> <<t>>, type |-> t, severity |-> s, matched_ingredient |-> <<t>>] :
        t \in AssessorTypes, s \in 1..5}

AssessorLists == UNION {[1..n -> AssessorAllergens] : n \in 0..MaxDetected}

-----------------------------------------------------------------------------
(* Actions *)

\* scan_text line 249 / a direct call of extract_ingredients
ExtractIngredients ==
    /\ pc = "start"
    /\ ingredients' = extract_ingredients(text)
    /\ pc' = "analyze"
    /\ UNCHANGED <<text, user_allergens, idx, found_ingredients,
                   detected_allergens, risk_level, warnings, confidence, safe>>

\* one iteration of the loop of lines 257-269
AnalyzeIngredient ==
    /\ pc = "analyze"
    /\ idx < Len(ingredients)
    /\ LET ingredient == ingredients[idx + 1]
       IN  /\ found_ingredients' = Append(found_ingredients, ingredient)
           /\ detected_allergens' =
                  add_matching(search_allergens(ingredient), 1,
                               detected_allergens, ingredient)
    /\ idx' = idx + 1
    /\ UNCHANGED <<text, user_allergens, ingredients, risk_level, warnings,
                   confidence, safe, pc>>

\* lines 271-284, after the loop
AnalyzeReturn ==
    /\ pc = "analyze"
    /\ idx = Len(ingredients)
    /\ risk_level' = assess_risk(user_allergens, detected_allergens)
    /\ warnings' = generate_warnings(user_allergens, detected_allergens)
    /\ confidence' = calculate_confidence(detected_allergens, ingredients)
    /\ safe' = is_safe(risk_level', detected_allergens)
    /\ pc' = "done"
    /\ UNCHANGED <<text, user_allergens, ingredients, idx, found_ingredients,
                   detected_allergens>>

\* a direct call of RiskAssessor.assess_risk
AssessRisk ==
    /\ pc = "assess"
    /\ risk_level' = assess_risk(user_allergens, detected_allergens)
    /\ pc' = "warn"
    /\ UNCHANGED <<text, user_allergens, ingredients, idx, found_ingredients,
                   detected_allergens, warnings, confidence, safe>>

\* a direct call of RiskAssessor.generate_warnings
GenerateWarnings ==
    /\ pc = "warn"
    /\ warnings' = generate_warnings(user_allergens, detected_allergens)
    /\ pc' = "returned"
    /\ UNCHANGED <<text, user_allergens, ingredients, idx, found_ingredients,
                   detected_allergens, risk_level, confidence, safe>>

InitExtract ==
    /\ text \in ExtractTexts
    /\ user_allergens = <<>>
    /\ ingredients = <<>>
    /\ idx = 0
    /\ found_ingredients = <<>>
    /\ detected_allergens = <<>>
    /\ risk_level = "low"
    /\ warnings = <<>>
    /\ confidence = <<0, 1>>
    /\ safe = FALSE
    /\ pc = "start"

NextExtract == ExtractIngredients

SpecExtract == InitExtract /\ [][NextExtract]_vars

-----------------------------------------------------------------------------
(* The scan: scan_text on a text, for a detector built with a profile *)

Init ==
    /\ text \in ScanTexts
    /\ user_allergens \in ScanProfiles
    /\ ingredients = <<>>
    /\ idx = 0
    /\ found_ingredients = <<>>
    /\ detected_allergens = <<>>
    /\ risk_level = "low"
    /\ warnings = <<>>
    /\ confidence = <<0, 1>>
    /\ safe = FALSE
    /\ pc = "start"

Next == ExtractIngredients \/ AnalyzeIngredient \/ AnalyzeReturn

Spec == Init /\ [][Next]_vars

-----------------------------------------------------------------------------
(* The assessor called on any list of detected allergens *)

InitAssessor ==
    /\ text = <<>>
    /\ user_allergens \in AssessorProfiles
    /\ ingredients = <<>>
    /\ idx = 0
    /\ found_ingredients = <<>>
    /\ detected_allergens \in AssessorLists
    /\ risk_level = "low"
    /\ warnings = <<>>
    /\ confidence = <<0, 1>>
    /\ safe = FALSE
    /\ pc = "assess"

NextAssessor == AssessRisk \/ GenerateWarnings

SpecAssessor == InitAssessor /\ [][NextAssessor]_vars


-----------------------------------------------------------------------------
(* Properties *)

\* RiskLevel's order: LOW < MODERATE < HIGH < SEVERE
Rank(level) ==
    CASE level = "low" -> 0
      [] level = "moderate" -> 1
      [] level = "high" -> 2
      [] level = "severe" -> 3

\* combined severity of a profiled allergen
Combined(profile, allergen) ==
    Min(profile[allergen.type] + allergen.severity, 10)

\* the level of one allergen taken alone
LevelOf(profile, allergen) ==
    IF allergen.type \notin DOMAIN profile THEN "low"
    ELSE IF Combined(profile, allergen) >= 8 THEN "severe"
    ELSE IF Combined(profile, allergen) >= 6 THEN "high"
    ELSE IF Combined(profile, allergen) >= 4 THEN "moderate"
    ELSE "low"

RatEq(a, b) == a[1] * b[2] = b[1] * a[2]

RatLeq(a, b) == a[1] * b[2] <= b[1] * a[2]

DetectedTypes == {detected_allergens[i].type : i \in 1..Len(detected_allergens)}

IsExampleProfile ==
    /\ DOMAIN user_allergens = {"peanut", "shellfish", "dairy"}
    /\ user_allergens["peanut"] = 5
    /\ user_allergens["shellfish"] = 3
    /\ user_allergens["dairy"] = 2

\* the categories of the records the search returns for a token
TypesFound(ingredient) ==
    LET found == search_allergens(ingredient)
    IN  {found[r].type : r \in 1..Len(found)}

\* C1: the risk level of a finished scan is the highest of the levels of the
\* detected allergens (LOW when none is detected), whatever their order.
C1_RiskIsMaximum ==
    pc = "done" =>
        /\ \A i \in 1..Len(detected_allergens) :
               Rank(risk_level) >= Rank(LevelOf(user_allergens, detected_allergens[i]))
        /\ \/ risk_level = "low"
           \/ \E i \in 1..Len(detected_allergens) :
                  risk_level = LevelOf(user_allergens, detected_allergens[i])

\* C2: in every result of scan_text, safe is true exactly when risk_level is
\* LOW and detected_allergens is empty.
C2_SafeIffLowAndEmpty ==
    pc = "done" => (safe <=> (risk_level = "low" /\ detected_allergens = <<>>))

\* a result with a detected allergen the profile does not name: LOW, not safe
C2_Witness ==
    pc = "done" /\ risk_level = "low" /\ detected_allergens # <<>> /\ ~ safe

\* C3: the example label scanned with the example profile detects peanut,
\* dairy and shellfish, is SEVERE and not safe, and warns severely of peanuts.
C3_ExampleScan ==
    (pc = "done" /\ text = ExampleText /\ IsExampleProfile) =>
        /\ {"peanut", "dairy", "shellfish"} \subseteq DetectedTypes
        /\ risk_level = "severe"
        /\ ~ safe
        /\ \E i \in 1..Len(warnings) :
               /\ warnings[i].tier = "severe_warning"
               /\ warnings[i].name = <<"p","e","a","n","u","t","s">>

\* C4: the scan of an empty or null text returns no ingredient, no detected
\* allergen, LOW, confidence 0.0, safe and no warning, for every profile.
C4_EmptyText ==
    (pc = "done" /\ (text = <<>> \/ text = None)) =>
        /\ found_ingredients = <<>>
        /\ detected_allergens = <<>>
        /\ risk_level = "low"
        /\ RatEq(confidence, <<0, 1>>)
        /\ safe
        /\ warnings = <<>>

\* the empty text scanned to its end for a detector that has a profile
C4_Witness ==
    pc = "done" /\ text = <<>> /\ DOMAIN user_allergens # {}

\* C5: every token extract_ingredients returns is longer than one character
\* and is no stop word, and the tokens are the cleaned pieces of the text that
\* are kept, in the order of the pieces, repeated ones included.
C5_TokensCleanOrdered ==
    pc = "analyze" =>
        LET pieces == IF text = None \/ text = <<>> THEN <<>>
                      ELSE re_split(clean_text(text))
            cleaned == [i \in 1..Len(pieces) |-> clean_ingredient(pieces[i])]
            kept == {i \in 1..Len(pieces) : Len(cleaned[i]) > 1}
            nth(j) == CHOOSE i \in kept : Cardinality({k \in kept : k <= i}) = j
        IN  /\ \A j \in 1..Len(ingredients) :
                   Len(ingredients[j]) > 1 /\ ingredients[j] \notin stop_words
            /\ Len(ingredients) = Cardinality(kept)
            /\ \A j \in 1..Len(ingredients) : ingredients[j] = cleaned[nth(j)]

\* a text with a piece that was dropped and a token that is returned twice
C5_Witness ==
    /\ pc = "analyze"
    /\ text # None
    /\ text # <<>>
    /\ Len(re_split(clean_text(text))) > Len(ingredients)
    /\ \E i, j \in 1..Len(ingredients) : i < j /\ ingredients[i] = ingredients[j]

\* C6: generate_warnings returns, in list order, one warning for each detected
\* allergen whose category is in the profile and none for the others; its tier
\* is severe when both severities are >= 4, else caution when either is >= 3,
\* else mild reminder.
C6_OneWarningPerProfiled ==
    pc = "returned" =>
        LET profiled == SelectSeq(detected_allergens,
                                  LAMBDA a : a.type \in DOMAIN user_allergens)
        IN  /\ Len(warnings) = Len(profiled)
            /\ Len(warnings) = Cardinality({i \in 1..Len(detected_allergens) :
                   detected_allergens[i].type \in DOMAIN user_allergens})
            /\ \A i \in 1..Len(warnings) :
                   LET u == user_allergens[profiled[i].type]
                       s == profiled[i].severity
                   IN  /\ warnings[i].name = profiled[i].name
                       /\ warnings[i].tier =
                              IF u >= 4 /\ s >= 4 THEN "severe_warning"
                              ELSE IF u >= 3 \/ s >= 3 THEN "warning"
                              ELSE "reminder"

\* a list with an allergen outside the profile, warned of in two tiers
C6_Witness ==
    /\ pc = "returned"
    /\ \E i \in 1..Len(detected_allergens) :
           detected_allergens[i].type \notin DOMAIN user_allergens
    /\ \E i, j \in 1..Len(warnings) :
           i < j /\ warnings[i].tier = "warning" /\ warnings[j].tier = "severe_warning"

\* the last allergen of the list is profiled with a combined severity above
\* that of every profiled allergen before it, or is not profiled at all
AddedIsHigher ==
    LET n == Len(detected_allergens)
        added == detected_allergens[n]
    IN  \/ added.type \notin DOMAIN user_allergens
        \/ \A j \in 1..(n - 1) :
               detected_allergens[j].type \in DOMAIN user_allergens =>
                   Combined(user_allergens, added)
                       > Combined(user_allergens, detected_allergens[j])

\* C7: a list that ends with an allergen of higher combined severity than the
\* ones before it is assessed no lower than the list without that allergen.
C7_MonotonicRisk ==
    (pc = "warn" /\ detected_allergens # <<>> /\ AddedIsHigher) =>
        Rank(risk_level) >=
            Rank(assess_risk(user_allergens,
                             SubSeq(detected_allergens, 1, Len(detected_allergens) - 1)))

\* a list already above LOW that the added allergen raises further
C7_Witness ==
    /\ pc = "warn"
    /\ Len(detected_allergens) >= 2
    /\ detected_allergens[Len(detected_allergens)].type \in DOMAIN user_allergens
    /\ AddedIsHigher
    /\ assess_risk(user_allergens,
                   SubSeq(detected_allergens, 1, Len(detected_allergens) - 1)) = "moderate"
    /\ risk_level = "severe"

\* C8: after any number of tokens, detected_allergens has at most one entry
\* per category, one for every category a processed token matched, and each
\* entry records the first processed token that matched its category.
C8_FirstMatchWins ==
    pc \in {"analyze", "done"} =>
        LET types == [k \in 1..idx |-> TypesFound(ingredients[k])]
        IN  /\ \A i, j \in 1..Len(detected_allergens) :
                   i # j => detected_allergens[i].type # detected_allergens[j].type
            /\ \A i \in 1..Len(detected_allergens) :
                   \E k \in 1..idx :
                       /\ detected_allergens[i].matched_ingredient = ingredients[k]
                       /\ detected_allergens[i].type \in types[k]
                       /\ \A k2 \in 1..(k - 1) :
                              detected_allergens[i].type \notin types[k2]
            /\ \A k \in 1..idx : types[k] \subseteq DetectedTypes

\* a later, different token matched a category that already had its entry
C8_Witness ==
    /\ pc = "analyze"
    /\ \E i \in 1..Len(detected_allergens) :
           \E k \in 1..idx :
               /\ detected_allergens[i].type \in TypesFound(ingredients[k])
               /\ ingredients[k] # detected_allergens[i].matched_ingredient

\* C9 as stated: with no allergen detected the confidence is 0.8 for more than
\* five tokens and 0.5 otherwise, zero tokens included.
C9_NoDetectionBranchAlways ==
    (pc = "done" /\ detected_allergens = <<>>) =>
        RatEq(confidence, IF Len(ingredients) > 5 THEN <<8, 10>> ELSE <<5, 10>>)

\* C9 amended: with no allergen detected the confidence is 0.0 for zero
\* tokens, 0.8 for more than five tokens and 0.5 for one to five.
C9_NoDetectionConfidence ==
    (pc = "done" /\ detected_allergens = <<>>) =>
        RatEq(confidence,
              IF Len(ingredients) = 0 THEN <<0, 1>>
              ELSE IF Len(ingredients) > 5 THEN <<8, 10>>
              ELSE <<5, 10>>)

\* a scan of more than five tokens that detects nothing
C9_Witness ==
    pc = "done" /\ detected_allergens = <<>> /\ Len(ingredients) > 5

\* C10: the confidence of a scan lies in [0, 1], and with m > 0 detected
\* categories over t tokens it is min(0.6 + 0.4 * m / t, 1).
C10_ConfidenceBounded ==
    pc = "done" =>
        /\ RatLeq(<<0, 1>>, confidence)
        /\ RatLeq(confidence, <<1, 1>>)
        /\ detected_allergens # <<>> =>
               LET m == Len(detected_allergens)
                   t == Len(ingredients)
               IN  /\ t > 0
                   /\ RatEq(confidence,
                            IF 6 * t + 4 * m > 10 * t THEN <<1, 1>>
                            ELSE <<6 * t + 4 * m, 10 * t>>)

\* one token matched two categories: more detected categories than tokens
C10_Witness ==
    /\ pc = "done"
    /\ Len(detected_allergens) > Len(ingredients)
    /\ RatEq(confidence, <<1, 1>>)

=============================================================================
